---- MODULE Spec2Model ----
(***************************************************************************)
(* A model of the segregated-free-list allocator of mm.c.                  *)
(*                                                                         *)
(* The heap is a map from 8-byte-aligned byte addresses to 8-byte words.   *)
(* Addresses and sizes are size_t values; size_t arithmetic is modular.    *)
(* TLC's integers are 32 bits wide, so the size word is modelled with      *)
(* SIZE_BITS = 30 bits instead of 64; every wrap-around of the code        *)
(* (n - 8 for n < 8, x + 15 in align, need + 16 in extend_memory, pointer  *)
(* arithmetic) happens at the same distance from the top of the range.     *)
(*                                                                         *)
(* Every C function is an operator from an allocator state                 *)
(*   [mem, brk, freelists, fault, ret, ...]                                *)
(* to the allocator state it leaves; each local of the function is bound   *)
(* in order with With(value, LAMBDA name : rest).                          *)
(* An access to an address outside the managed region is undefined         *)
(* behaviour: it sets the fault flag, and the action that ran the call     *)
(* then picks one of the outcomes in UBOutcomes.  A run is followed up to  *)
(* the first such access, and up to the first copy or fill that runs past  *)
(* the end of the block it was given (the state it leaves is kept, marked  *)
(* "smashed", and no call is made from it).                                *)
(***************************************************************************)
EXTENDS Integers, Sequences, FiniteSets, TLC

VARIABLES
    inited,     \* mm_init has run successfully
    brk,        \* the break of the sbrk-style primitive
    heap,       \* global `heap`: address of the prologue header (NULL before init)
    freelists,  \* global `freelists[15]`: head payload address of each list
    mem,        \* the managed region: word address -> word
    limit,      \* the highest break the primitive grants (its mem_max_addr)
    fault,      \* "none"; the outcome of an undefined access; or "smashed" once a
                \* copy or fill has run past the block it was given: the calls
                \* stop there
    live,       \* pointer -> capacity, for pointers returned and not yet freed
    last        \* the last call: its name, arguments, result and sbrk traffic

vars == <<inited, brk, limit, heap, freelists, mem, fault, live, last>>

----------------------------------------------------------------------------
(* Bounds of the model *)

\* The break never exceeds the aligned heap start plus 32 + 16 * MaxUnits bytes.
MaxUnits == 4

\* Largest element count passed to calloc.
MaxNmemb == 2

----------------------------------------------------------------------------
(* Program constants *)

NULL == 0

ALIGNMENT == 16

\* width of size_t in the model (see the note at the top)
SIZE_BITS == 30

SIZE_MOD == 2 ^ SIZE_BITS

\* (void *) -1, the failure sentinel of mm_sbrk
SBRK_FAIL == SIZE_MOD - 1

NUM_LISTS == 15

\* sizeof(DList): two pointers
SIZEOF_DLIST == 16

\* size_t arithmetic
W(x) == x % SIZE_MOD

\* One byte of a little-endian word.
BYTE == 256

\* number of low bytes of a word that hold model values (all higher bytes are 0)
LOW_BYTES == 4

----------------------------------------------------------------------------
(* The sbrk-style primitive and raw memory access *)

\* a local of a C function: the value v, computed once, under the name K binds
With(v, K(_)) == K(v)

WordAddrs(lo, hi) == { a \in lo .. (hi - 1) : a % 8 = 0 }

InHeap(s, a) == a \in DOMAIN s.mem

\* a read of *a; reads outside the region are flagged by Touch
Rd(s, a) == IF InHeap(s, a) THEN s.mem[a] ELSE 0

Touch(s, a) == IF s.fault \/ InHeap(s, a) THEN s ELSE [s EXCEPT !.fault = TRUE]

Wr(s, a, v) ==
    IF s.fault THEN s
    ELSE IF InHeap(s, a) THEN [s EXCEPT !.mem[a] = v]
    ELSE [s EXCEPT !.fault = TRUE]

\* mm_sbrk(incr): grows the region by incr bytes and returns the old break in
\* .ret, or refuses (SBRK_FAIL) when the region would pass its limit s.max.
\* New bytes are uninitialised: every new word holds s.junk.
mm_sbrk(s, incr) ==
    IF s.fault THEN s
    ELSE IF s.brk + incr > s.max
    THEN [s EXCEPT !.ret = SBRK_FAIL, !.refused = @ + 1]
    ELSE LET lo == IF s.brk % 8 = 0 THEN s.brk ELSE s.brk + 8 - (s.brk % 8)
             new == WordAddrs(lo, s.brk + incr)
         IN [s EXCEPT !.ret = s.brk,
                      !.brk = s.brk + incr,
                      !.mem = [a \in (DOMAIN s.mem) \cup new |->
                                 IF a \in DOMAIN s.mem THEN s.mem[a] ELSE s.junk],
                      !.grown = Append(@, incr)]

----------------------------------------------------------------------------
(* align, aligned *)

align(x) == W(ALIGNMENT * (W(x + ALIGNMENT - 1) \div ALIGNMENT))

\* variant: alignment to the 8-byte word only
aligned_to_word(p) == p % 8 = 0

aligned(p) == align(p) = p

----------------------------------------------------------------------------
(* Boundary-tag codec *)

\* bitwise or of a size word and a two-bit flag value
OrFlags(size, flags) ==
    LET lowbits == size % 4
        b0 == IF (lowbits % 2 = 1) \/ (flags % 2 = 1) THEN 1 ELSE 0
        b1 == IF (lowbits \div 2 = 1) \/ (flags \div 2 = 1) THEN 2 ELSE 0
    IN (size - lowbits) + b1 + b0

GET_SIZE(s, a) == LET w == Rd(s, a) IN w - (w % 4)

GET_FREE_BIT(s, a) == Rd(s, a) % 2 = 1

GET_PREV_BLOCK_FREE_BIT(s, a) == (Rd(s, a) \div 2) % 2 = 1

SET_VALUE(s, a, payload_size, is_free, prev_block_free) ==
    LET flags == (IF prev_block_free THEN 2 ELSE 0) + (IF is_free THEN 1 ELSE 0)
    IN Wr(s, a, OrFlags(payload_size, flags))

SET_FREE_BIT(s, a, is_free) ==
    SET_VALUE(Touch(s, a), a, GET_SIZE(s, a), is_free, GET_PREV_BLOCK_FREE_BIT(s, a))

SET_PREV_BLOCK_FREE_BIT(s, a, prev_flag_free_bit) ==
    SET_VALUE(Touch(s, a), a, GET_SIZE(s, a), GET_FREE_BIT(s, a), prev_flag_free_bit)

----------------------------------------------------------------------------
(* Block navigator *)

Header_size == 8

Footer_size == 8

Payload_get_header(payload) == W(payload - Header_size)

Payload_get_size(s, payload) == GET_SIZE(s, Payload_get_header(payload))

Payload_get_footer(s, payload) == W(payload + Payload_get_size(s, payload))

Header_get_payload(header) == W(header + Header_size)

Header_get_footer(s, header) == Payload_get_footer(s, Header_get_payload(header))

Header_get_next_header(s, header) == W(Header_get_footer(s, header) + Footer_size)

Footer_get_header(s, footer) ==
    Payload_get_header(W(footer - GET_SIZE(s, footer)))

Header_get_prev_header(s, header) == Footer_get_header(s, W(header - Footer_size))

Header_get_list(header) == Header_get_payload(header)

Payload_min_size == align(SIZEOF_DLIST)

Block_min_size == Header_size + Payload_min_size + Footer_size

----------------------------------------------------------------------------
(* Doubly linked lists: prev at offset 0, next at offset 8 of the payload *)

ListPrev(s, list) == Rd(s, list)

ListNext(s, list) == Rd(s, W(list + 8))

SetHead(s, b, v) == IF s.fault THEN s ELSE [s EXCEPT !.freelists[b] = v]

\* variant: a node joins a non-empty list behind its head
LinkedList_insert_behind_head(s, b, list) ==
    LET head == s.freelists[b]
        second == ListNext(s, head)
        s1 == IF second # NULL THEN Wr(s, second, list) ELSE s
        s2 == Wr(s1, list, head)
        s3 == Wr(s2, W(list + 8), second)
        s4 == Wr(s3, W(head + 8), list)
    IN IF head = NULL
       THEN SetHead(Wr(Wr(s, list, NULL), W(list + 8), NULL), b, list)
       ELSE s4

LinkedList_insert_at_front(s, b, list) ==
    LET head == s.freelists[b]
        s1 == IF head # NULL THEN Wr(s, head, list) ELSE s
        s2 == Wr(s1, list, NULL)
        s3 == Wr(s2, W(list + 8), head)
    IN SetHead(s3, b, list)

LinkedList_remove(s, b, list) ==
    LET s0 == Touch(Touch(s, list), W(list + 8))
        s1 == IF ListNext(s0, list) # NULL
              THEN Wr(s0, ListNext(s0, list), ListPrev(s0, list))
              ELSE s0
    IN IF ListPrev(s1, list) # NULL
       THEN Wr(s1, W(ListPrev(s1, list) + 8), ListNext(s1, list))
       ELSE SetHead(s1, b, ListNext(s1, list))

----------------------------------------------------------------------------
(* Segregated free lists *)

Segregated_get_size_classes ==
    [i \in 0 .. (NUM_LISTS - 1) |-> IF i = NUM_LISTS - 1 THEN 0 ELSE ALIGNMENT * (i + 1)]

Segregated_get_bucket(size) ==
    LET sizes == Segregated_get_size_classes
        hits == { i \in 0 .. (NUM_LISTS - 1) : sizes[i] = size }
    IN IF hits = {} THEN NUM_LISTS - 1
       ELSE CHOOSE i \in hits : \A j \in hits : i <= j

RECURSIVE firstfit_loop(_, _, _, _)
firstfit_loop(s, list, size, fuel) ==
    IF s.fault THEN s
    ELSE IF list = NULL THEN [s EXCEPT !.ret = NULL]
    ELSE IF fuel = 0 THEN [s EXCEPT !.fault = TRUE]
    ELSE LET header == Payload_get_header(list)
             s0 == Touch(s, header)
         IN IF s0.fault THEN s0
            ELSE IF W(GET_SIZE(s0, header) + Footer_size) >= size
            THEN [s0 EXCEPT !.ret = header]
            ELSE firstfit_loop(Touch(s0, W(list + 8)), ListNext(s0, list), size, fuel - 1)

\* The loop follows next links; a list longer than the region has words is cyclic.
find_free_block_explicit_list_firstfit(s, freelist, size) ==
    firstfit_loop(s, freelist, size, Cardinality(DOMAIN s.mem) + 1)

Segregated_insert_header(s, header) ==
    LET s0 == Touch(s, header)
        size == GET_SIZE(s0, header)
        bucket == Segregated_get_bucket(size)
        list == Header_get_list(header)
    IN LinkedList_insert_at_front(s0, bucket, list)

Segregated_remove_header(s, header) ==
    LET s0 == Touch(s, header)
        size == GET_SIZE(s0, header)
        bucket == Segregated_get_bucket(size)
        list == Header_get_list(header)
    IN LinkedList_remove(s0, bucket, list)

\* the effective payload of a request, as the search computes it (>=)
SearchSize(size) ==
    LET search_size == align(W(size - 8))
    IN IF search_size >= Payload_min_size THEN search_size ELSE Payload_min_size

\* variant: list 14 yields its head, whether it fits or not
Segregated_find_free_block_head_of_last(s, size) ==
    LET search_size == SearchSize(size)
        nonempty == { i \in Segregated_get_bucket(search_size) .. 13 : s.freelists[i] # NULL }
    IN IF nonempty # {}
       THEN LET i == CHOOSE k \in nonempty : \A j \in nonempty : k <= j
            IN [s EXCEPT !.ret = Payload_get_header(s.freelists[i])]
       ELSE [s EXCEPT !.ret = IF s.freelists[14] = NULL THEN NULL
                                ELSE Payload_get_header(s.freelists[14])]

Segregated_find_free_block(s, size) ==
    LET search_size == SearchSize(size)
        nonempty == { i \in Segregated_get_bucket(search_size) .. 13 : s.freelists[i] # NULL }
    IN IF nonempty # {}
       THEN LET i == CHOOSE k \in nonempty : \A j \in nonempty : k <= j
            IN [s EXCEPT !.ret = Payload_get_header(s.freelists[i])]
       ELSE find_free_block_explicit_list_firstfit(s, s.freelists[14], size)

----------------------------------------------------------------------------
(* Coalescing *)

coalesce_left(s, header) ==
    With(Touch(s, header), LAMBDA s0 :
    IF s0.fault THEN s0
    ELSE IF ~GET_FREE_BIT(s0, header) THEN s0
    ELSE IF ~GET_PREV_BLOCK_FREE_BIT(s0, header) THEN s0
    ELSE
    With(Touch(s0, W(header - Footer_size)), LAMBDA sf :
    With(Header_get_prev_header(sf, header), LAMBDA prev_header :
    With(Segregated_remove_header(sf, header), LAMBDA s1 :
    With(Segregated_remove_header(s1, prev_header), LAMBDA s2 :
    With(W(Header_size + GET_SIZE(s2, header) + Footer_size), LAMBDA size2 :
    With(W(GET_SIZE(s2, prev_header) + size2), LAMBDA size1 :
    With(GET_PREV_BLOCK_FREE_BIT(s2, prev_header), LAMBDA prev_prev_free_block_bit :
    With(SET_VALUE(s2, prev_header, size1, TRUE, prev_prev_free_block_bit), LAMBDA s3 :
    With(Header_get_footer(s3, prev_header), LAMBDA prev_footer :
    With(SET_VALUE(s3, prev_footer, size1, TRUE, prev_prev_free_block_bit), LAMBDA s4 :
    Segregated_insert_header(s4, prev_header))))))))))))

\* variant: only the merge with the block above; the lower neighbour is left alone
coalesce_only_right(s, header) ==
    With(Touch(s, header), LAMBDA s0 :
    With(Header_get_next_header(s0, header), LAMBDA next_header :
    coalesce_left(s0, next_header)))

\* variant: only the merge with the lower neighbour; the block above is left alone
coalesce_only_left(s, header) ==
    With(Touch(s, header), LAMBDA s0 :
    coalesce_left(s0, header))

\* variant: the merge with the lower neighbour first, then the one with the
\* block above
coalesce_left_first(s, header) ==
    With(Touch(s, header), LAMBDA s0 :
    With(Header_get_next_header(s0, header), LAMBDA next_header :
    With(coalesce_left(s0, header), LAMBDA s1 :
    coalesce_left(s1, next_header))))

coalesce(s, header) ==
    With(Touch(s, header), LAMBDA s0 :
    With(Header_get_next_header(s0, header), LAMBDA next_header :
    With(coalesce_left(s0, next_header), LAMBDA s1 :
    coalesce_left(s1, header))))

----------------------------------------------------------------------------
(* Heap extension and placement *)

\* the effective payload of a request, as extend_memory and allocate compute it (>)
RequiredPayload(size) ==
    LET sz == align(W(size - 8))
    IN IF sz > Payload_min_size THEN sz ELSE Payload_min_size

\* variant: the new epilogue header records the minimum payload size, not 0
extend_memory_sized_epilogue(s, size0) ==
    With(RequiredPayload(size0), LAMBDA size :
    With(W(size + Footer_size + Header_size), LAMBDA incr :
    With(mm_sbrk(s, incr), LAMBDA sb :
    With(sb.ret, LAMBDA payload :
    IF sb.fault THEN sb
    ELSE IF payload = SBRK_FAIL THEN [sb EXCEPT !.ok = FALSE]
    ELSE
    With(Payload_get_header(payload), LAMBDA header :
    With(Touch(sb, header), LAMBDA s0 :
    With(GET_PREV_BLOCK_FREE_BIT(s0, header), LAMBDA prev_block_free :
    With(SET_VALUE(s0, header, size, TRUE, prev_block_free), LAMBDA s1 :
    With(Header_get_footer(s1, header), LAMBDA footer :
    With(SET_VALUE(s1, footer, size, TRUE, prev_block_free), LAMBDA s2 :
    With(Header_get_next_header(s2, header), LAMBDA next_header :
    With(SET_VALUE(s2, next_header, Payload_min_size, FALSE, TRUE), LAMBDA s3 :
    With(Segregated_insert_header(s3, header), LAMBDA s4 :
    With(coalesce(s4, header), LAMBDA s5 :
    [s5 EXCEPT !.ok = TRUE]))))))))))))))

extend_memory(s, size0) ==
    With(RequiredPayload(size0), LAMBDA size :
    With(W(size + Footer_size + Header_size), LAMBDA incr :
    With(mm_sbrk(s, incr), LAMBDA sb :
    With(sb.ret, LAMBDA payload :
    IF sb.fault THEN sb
    ELSE IF payload = SBRK_FAIL THEN [sb EXCEPT !.ok = FALSE]
    ELSE
    With(Payload_get_header(payload), LAMBDA header :
    With(Touch(sb, header), LAMBDA s0 :
    With(GET_PREV_BLOCK_FREE_BIT(s0, header), LAMBDA prev_block_free :
    With(SET_VALUE(s0, header, size, TRUE, prev_block_free), LAMBDA s1 :
    With(Header_get_footer(s1, header), LAMBDA footer :
    With(SET_VALUE(s1, footer, size, TRUE, prev_block_free), LAMBDA s2 :
    With(Header_get_next_header(s2, header), LAMBDA next_header :
    With(SET_VALUE(s2, next_header, 0, FALSE, TRUE), LAMBDA s3 :
    With(Segregated_insert_header(s3, header), LAMBDA s4 :
    With(coalesce(s4, header), LAMBDA s5 :
    [s5 EXCEPT !.ok = TRUE]))))))))))))))

\* the branch of allocate that splits the block at header: the front part of
\* new_size bytes, then the remainder as a free block of its own
allocate_split(s, header, new_size) ==
    With(Segregated_remove_header(s, header), LAMBDA a1 :
    With(GET_SIZE(a1, header), LAMBDA old_size :
    With(SET_VALUE(a1, header, new_size, TRUE, FALSE), LAMBDA a2 :
    With(Header_get_footer(a2, header), LAMBDA footer1 :
    With(SET_VALUE(a2, footer1, new_size, TRUE, FALSE), LAMBDA a3 :
    With(Segregated_insert_header(a3, header), LAMBDA a4 :
    With(W(old_size - new_size), LAMBDA free_space :
    With(W(free_space - (Header_size + Footer_size)), LAMBDA new_payload_size :
    With(Header_get_next_header(a4, header), LAMBDA new_header :
    With(SET_VALUE(a4, new_header, new_payload_size, TRUE, FALSE), LAMBDA a5 :
    With(Header_get_footer(a5, new_header), LAMBDA new_footer :
    With(SET_VALUE(a5, new_footer, new_payload_size, TRUE, FALSE), LAMBDA a6 :
    Segregated_insert_header(a6, new_header)))))))))))))

\* variant: the block is split as soon as its surplus holds a minimum payload
allocate_split_early(s, header, size0) ==
    With(RequiredPayload(size0), LAMBDA size :
    With(Touch(s, header), LAMBDA st :
    With(IF W(GET_SIZE(st, header) - size) >= Payload_min_size
         THEN allocate_split(st, header, size) ELSE st, LAMBDA b0 :
    With(Segregated_remove_header(b0, header), LAMBDA b1 :
    With(Header_get_next_header(b1, header), LAMBDA next_header :
    With(SET_FREE_BIT(b1, header, FALSE), LAMBDA b2 :
    With(SET_PREV_BLOCK_FREE_BIT(b2, next_header, FALSE), LAMBDA b3 :
    With(Header_get_footer(b3, header), LAMBDA footer :
    With(SET_FREE_BIT(b3, footer, FALSE), LAMBDA b4 :
    IF b4.fault THEN b4 ELSE [b4 EXCEPT !.ret = Header_get_payload(header)])))))))))

\* variant: the block found is handed out whole, whatever its size
allocate_no_split(s, header, size0) ==
    With(Touch(s, header), LAMBDA st :
    With(Segregated_remove_header(st, header), LAMBDA b1 :
    With(Header_get_next_header(b1, header), LAMBDA next_header :
    With(SET_FREE_BIT(b1, header, FALSE), LAMBDA b2 :
    With(SET_PREV_BLOCK_FREE_BIT(b2, next_header, FALSE), LAMBDA b3 :
    With(Header_get_footer(b3, header), LAMBDA footer :
    With(SET_FREE_BIT(b3, footer, FALSE), LAMBDA b4 :
    IF b4.fault THEN b4 ELSE [b4 EXCEPT !.ret = Header_get_payload(header)])))))))

allocate(s, header, size0) ==
    With(RequiredPayload(size0), LAMBDA size :
    With(Touch(s, header), LAMBDA st :
    With(IF W(GET_SIZE(st, header) - size) >= Block_min_size
         THEN allocate_split(st, header, size) ELSE st, LAMBDA b0 :
    With(Segregated_remove_header(b0, header), LAMBDA b1 :
    With(Header_get_next_header(b1, header), LAMBDA next_header :
    With(SET_FREE_BIT(b1, header, FALSE), LAMBDA b2 :
    With(SET_PREV_BLOCK_FREE_BIT(b2, next_header, FALSE), LAMBDA b3 :
    With(Header_get_footer(b3, header), LAMBDA footer :
    With(SET_FREE_BIT(b3, footer, FALSE), LAMBDA b4 :
    IF b4.fault THEN b4 ELSE [b4 EXCEPT !.ret = Header_get_payload(header)])))))))))

mirror_header_to_footer(s, header) ==
    LET s0 == Touch(s, header)
        footer == Header_get_footer(s0, header)
        size == GET_SIZE(s0, header)
        is_free == GET_FREE_BIT(s0, header)
        is_prev_free == GET_PREV_BLOCK_FREE_BIT(s0, header)
    IN SET_VALUE(s0, footer, size, is_free, is_prev_free)

----------------------------------------------------------------------------
(* Byte primitives *)

\* the word w with its j lowest-addressed (least significant) bytes cleared
ZeroLow(w, j) == IF j >= LOW_BYTES THEN 0 ELSE (w \div (BYTE ^ j)) * (BYTE ^ j)

\* the word d with its j lowest-addressed bytes replaced by those of w
CopyLow(d, w, j) == ZeroLow(d, j) + (w - ZeroLow(w, j))

\* copy n bytes from src to dst, reading the source words from the memory m0:
\* whole words, then the low bytes of a last partial word
RECURSIVE CopyFrom(_, _, _, _, _)
CopyFrom(s, m0, dst, src, n) ==
    IF n = 0 \/ s.fault THEN s
    ELSE IF src \notin DOMAIN m0 THEN [s EXCEPT !.fault = TRUE]
    ELSE IF n >= 8
         THEN CopyFrom(Wr(s, dst, m0[src]), m0, W(dst + 8), W(src + 8), n - 8)
         ELSE Wr(Touch(s, dst), dst, CopyLow(Rd(s, dst), m0[src], n))

\* copy n bytes from src to dst in ascending order, reading each source word
\* when its turn comes
RECURSIVE CopyForward(_, _, _, _)
CopyForward(s, dst, src, n) ==
    IF n = 0 \/ s.fault THEN s
    ELSE LET s0 == Touch(s, src)
         IN IF n >= 8
            THEN CopyForward(Wr(s0, dst, Rd(s0, src)), W(dst + 8), W(src + 8), n - 8)
            ELSE Wr(Touch(s0, dst), dst, CopyLow(Rd(s0, dst), Rd(s0, src), n))

Overlap(dst, src, n) == n > 0 /\ dst < src + n /\ src < dst + n

\* n bytes from dst on reach past the payload and lent footer of the block at dst
Past(s, dst, n) == n > Payload_get_size(s, dst) + Footer_size

\* mem_memcpy(dst, src, n). Copying between overlapping ranges is undefined: the
\* library either loads the whole source first (s.copy = "loadfirst") or copies
\* word by word in ascending order ("ascending"); otherwise the two agree.
\* .smashed records a copy that runs past the capacity of the block at dst.
mem_memcpy(s, dst, src, n) ==
    LET s0 == [s EXCEPT !.overlapped = @ \/ Overlap(dst, src, n),
                        !.smashed = @ \/ Past(s, dst, n)]
    IN IF Overlap(dst, src, n) /\ s.copy = "ascending"
       THEN CopyForward(s0, dst, src, n)
       ELSE CopyFrom(s0, s.mem, dst, src, n)

\* memset(ptr, 0, n): whole words, then the low bytes of a last partial word
RECURSIVE memset_loop(_, _, _)
memset_loop(s, ptr, n) ==
    IF n = 0 \/ s.fault THEN s
    ELSE IF n >= 8 THEN memset_loop(Wr(s, ptr, 0), W(ptr + 8), n - 8)
    ELSE Wr(Touch(s, ptr), ptr, ZeroLow(Rd(s, ptr), n))

\* .smashed records a fill that runs past the capacity of the block at ptr.
memset0(s, ptr, n) == memset_loop([s EXCEPT !.smashed = @ \/ Past(s, ptr, n)], ptr, n)

----------------------------------------------------------------------------
(* Entry points *)

RECURSIVE init_probe(_)
init_probe(s) ==
    With(mm_sbrk(s, 1), LAMBDA sb :
    IF sb.ret = SBRK_FAIL \/ aligned(sb.ret) THEN sb ELSE init_probe(sb))

\* variant: the second request does not take off the byte of the last probe
mm_init_one_more(s) ==
    With(init_probe(s), LAMBDA p :
    With(p.ret, LAMBDA start :
    IF start = SBRK_FAIL THEN [p EXCEPT !.ok = FALSE]
    ELSE
    With(8 + Header_size + Footer_size + Header_size, LAMBDA size :
    With(mm_sbrk(p, size), LAMBDA sb :
    IF sb.ret = SBRK_FAIL THEN [sb EXCEPT !.ok = FALSE]
    ELSE
    With([sb EXCEPT !.heap = W(start + 8),
                    !.freelists = [i \in 0 .. (NUM_LISTS - 1) |-> NULL]], LAMBDA s0 :
    With(s0.heap, LAMBDA header :
    With(SET_VALUE(s0, header, 0, FALSE, FALSE), LAMBDA s1 :
    With(Header_get_footer(s1, header), LAMBDA footer :
    With(SET_VALUE(s1, footer, 0, FALSE, FALSE), LAMBDA s2 :
    With(Header_get_next_header(s2, header), LAMBDA next_header :
    With(SET_VALUE(s2, next_header, 0, FALSE, FALSE), LAMBDA s3 :
    [s3 EXCEPT !.ok = TRUE])))))))))))

mm_init(s) ==
    With(init_probe(s), LAMBDA p :
    With(p.ret, LAMBDA start :
    IF start = SBRK_FAIL THEN [p EXCEPT !.ok = FALSE]
    ELSE
    With(8 + Header_size + Footer_size + Header_size - 1, LAMBDA size :
    With(mm_sbrk(p, size), LAMBDA sb :
    IF sb.ret = SBRK_FAIL THEN [sb EXCEPT !.ok = FALSE]
    ELSE
    With([sb EXCEPT !.heap = W(start + 8),
                    !.freelists = [i \in 0 .. (NUM_LISTS - 1) |-> NULL]], LAMBDA s0 :
    With(s0.heap, LAMBDA header :
    With(SET_VALUE(s0, header, 0, FALSE, FALSE), LAMBDA s1 :
    With(Header_get_footer(s1, header), LAMBDA footer :
    With(SET_VALUE(s1, footer, 0, FALSE, FALSE), LAMBDA s2 :
    With(Header_get_next_header(s2, header), LAMBDA next_header :
    With(SET_VALUE(s2, next_header, 0, FALSE, FALSE), LAMBDA s3 :
    [s3 EXCEPT !.ok = TRUE])))))))))))

\* mm_checkheap compiled without DEBUG: no access, returns true
mm_checkheap(s) == s

\* malloc calls itself after every successful extension; depth counts the calls left
RECURSIVE malloc_rec(_, _, _)
malloc_rec(s, size, depth) ==
    IF s.fault THEN s
    ELSE IF size = 0 THEN [s EXCEPT !.ret = NULL]
    ELSE
    With(Segregated_find_free_block(s, size), LAMBDA f :
    With(f.ret, LAMBDA header :
    IF f.fault THEN f
    ELSE IF header = NULL
    THEN With(extend_memory(f, size), LAMBDA e :
         IF e.fault THEN e
         ELSE IF e.ok
         THEN IF depth = 0 THEN [e EXCEPT !.fault = TRUE]
              ELSE malloc_rec(e, size, depth - 1)
         ELSE [e EXCEPT !.ret = NULL])
    ELSE mm_checkheap(allocate(f, header, size))))

\* variant: a request of 0 bytes is served like a request of 1 byte
malloc_zero_as_one(s, size) ==
    malloc_rec(s, IF size = 0 THEN 1 ELSE size, Cardinality(DOMAIN s.mem) + 2)

malloc(s, size) == malloc_rec(s, size, Cardinality(DOMAIN s.mem) + 2)

free(s, ptr) ==
    With(ptr, LAMBDA payload :
    With(Payload_get_header(payload), LAMBDA header :
    With(SET_FREE_BIT(s, header, TRUE), LAMBDA s1 :
    With(mirror_header_to_footer(s1, header), LAMBDA s2 :
    With(Header_get_next_header(s2, header), LAMBDA next_header :
    With(SET_PREV_BLOCK_FREE_BIT(s2, next_header, TRUE), LAMBDA s3 :
    With(Segregated_insert_header(s3, header), LAMBDA s4 :
    With(coalesce(s4, header), LAMBDA s5 :
    mm_checkheap(s5)))))))))

\* variant: the block is kept only when its capacity exceeds the request
realloc_strict(s, oldptr, size) ==
    IF oldptr = NULL THEN malloc(s, size)
    ELSE IF size = 0 THEN [free(s, oldptr) EXCEPT !.ret = NULL]
    ELSE
    With(Payload_get_header(oldptr), LAMBDA header :
    With(Touch(s, header), LAMBDA s0 :
    IF s0.fault THEN s0
    ELSE
    With(GET_SIZE(s0, header), LAMBDA payload_size :
    IF W(payload_size + Footer_size) > size THEN [s0 EXCEPT !.ret = oldptr]
    ELSE
    With(malloc(s0, size), LAMBDA m :
    IF m.fault THEN m
    ELSE IF m.ret = NULL THEN m
    ELSE
    With(mem_memcpy(m, m.ret, oldptr, W(payload_size + Footer_size)), LAMBDA c :
    [free(c, oldptr) EXCEPT !.ret = m.ret])))))

\* variant: the old block is freed also when the inner malloc returns NULL
realloc_free_anyway(s, oldptr, size) ==
    IF oldptr = NULL THEN malloc(s, size)
    ELSE IF size = 0 THEN [free(s, oldptr) EXCEPT !.ret = NULL]
    ELSE
    With(Payload_get_header(oldptr), LAMBDA header :
    With(Touch(s, header), LAMBDA s0 :
    IF s0.fault THEN s0
    ELSE
    With(GET_SIZE(s0, header), LAMBDA payload_size :
    IF W(payload_size + Footer_size) >= size THEN [s0 EXCEPT !.ret = oldptr]
    ELSE
    With(malloc(s0, size), LAMBDA m :
    IF m.fault THEN m
    ELSE IF m.ret = NULL THEN [free(m, oldptr) EXCEPT !.ret = NULL]
    ELSE
    With(mem_memcpy(m, m.ret, oldptr, W(payload_size + Footer_size)), LAMBDA c :
    [free(c, oldptr) EXCEPT !.ret = m.ret])))))

\* variant: no test for a NULL oldptr; the header of NULL is read like any other
realloc_no_null_test(s, oldptr, size) ==
    IF size = 0 THEN [free(s, oldptr) EXCEPT !.ret = NULL]
    ELSE
    With(Payload_get_header(oldptr), LAMBDA header :
    With(Touch(s, header), LAMBDA s0 :
    IF s0.fault THEN s0
    ELSE
    With(GET_SIZE(s0, header), LAMBDA payload_size :
    IF W(payload_size + Footer_size) >= size THEN [s0 EXCEPT !.ret = oldptr]
    ELSE
    With(malloc(s0, size), LAMBDA m :
    IF m.fault THEN m
    ELSE IF m.ret = NULL THEN m
    ELSE
    With(mem_memcpy(m, m.ret, oldptr, W(payload_size + Footer_size)), LAMBDA c :
    [free(c, oldptr) EXCEPT !.ret = m.ret])))))

\* variant: no branch for a size of 0; the request falls to the capacity test
realloc_zero_keeps(s, oldptr, size) ==
    IF oldptr = NULL THEN malloc(s, size)
    ELSE
    With(Payload_get_header(oldptr), LAMBDA header :
    With(Touch(s, header), LAMBDA s0 :
    IF s0.fault THEN s0
    ELSE
    With(GET_SIZE(s0, header), LAMBDA payload_size :
    IF W(payload_size + Footer_size) >= size THEN [s0 EXCEPT !.ret = oldptr]
    ELSE
    With(malloc(s0, size), LAMBDA m :
    IF m.fault THEN m
    ELSE IF m.ret = NULL THEN m
    ELSE
    With(mem_memcpy(m, m.ret, oldptr, W(payload_size + Footer_size)), LAMBDA c :
    [free(c, oldptr) EXCEPT !.ret = m.ret])))))

realloc(s, oldptr, size) ==
    IF oldptr = NULL THEN malloc(s, size)
    ELSE IF size = 0 THEN [free(s, oldptr) EXCEPT !.ret = NULL]
    ELSE
    With(oldptr, LAMBDA payload :
    With(Payload_get_header(payload), LAMBDA header :
    With(Touch(s, header), LAMBDA s0 :
    IF s0.fault THEN s0
    ELSE
    With(GET_SIZE(s0, header), LAMBDA payload_size :
    IF W(payload_size + Footer_size) >= size THEN [s0 EXCEPT !.ret = oldptr]
    ELSE
    With(malloc(s0, size), LAMBDA m :
    With(m.ret, LAMBDA new_payload :
    IF m.fault THEN m
    ELSE IF new_payload = NULL THEN [m EXCEPT !.ret = NULL]
    ELSE
    With(mem_memcpy(m, new_payload, payload, W(payload_size + Footer_size)), LAMBDA c :
    With(free(c, payload), LAMBDA f :
    [mm_checkheap(f) EXCEPT !.ret = new_payload]))))))))

\* size * nmemb in size_t arithmetic
RECURSIVE MulW(_, _)
MulW(size, nmemb) == IF nmemb = 0 THEN 0 ELSE W(MulW(size, nmemb - 1) + size)

\* variant: the block is returned as malloc left it
calloc_no_fill(s, nmemb, size0) == malloc(s, MulW(size0, nmemb))

calloc(s, nmemb, size0) ==
    With(MulW(size0, nmemb), LAMBDA size :
    With(malloc(s, size), LAMBDA m :
    With(m.ret, LAMBDA ptr :
    IF m.fault THEN m
    ELSE IF ptr # NULL THEN [memset0(m, ptr, size) EXCEPT !.ret = ptr]
    ELSE m)))

----------------------------------------------------------------------------
(* The caller: the calls it makes and the data it stores *)

\* request sizes: zero, the rows of the footer-optimisation table, and sizes
\* within 16 of the top of the size_t range
Sizes == {0, 1, 24, 25, SIZE_MOD - 9, SIZE_MOD - 1}

\* sizes passed to realloc
ReallocSizes == {0, 24, 25, SIZE_MOD - 1}

\* element sizes passed to calloc; twice SIZE_MOD \div 2 wraps to 0
CallocSizes == {0, 10, SIZE_MOD \div 2, SIZE_MOD - 1}

\* what an uninitialised word handed out by sbrk may hold
JunkWords == {0}

UBOutcomes == {"segv", "wild"}

\* what memcpy does with overlapping ranges
CopyOrders == {"loadfirst", "ascending"}

\* the limit of a region that starts at break b and holds the initial layout
\* (at most 15 probe bytes, 32 bytes of pad, prologue and epilogue) and
\* `units` times 16 bytes of user blocks
HeapMax(b, units) == b + (ALIGNMENT - 1) + 32 + ALIGNMENT * units

StateWith(j, c) ==
    [mem |-> mem, brk |-> brk, heap |-> heap, freelists |-> freelists,
     fault |-> FALSE, ret |-> NULL, ok |-> TRUE,
     max |-> limit,
     junk |-> j, copy |-> c, overlapped |-> FALSE, smashed |-> FALSE, refused |-> 0, grown |-> << >>]

State(j) == StateWith(j, "loadfirst")

Call(op, ptr, size, nmemb, r) ==
    [op |-> op, ptr |-> ptr, size |-> size, nmemb |-> nmemb,
     ret |-> IF r.fault THEN NULL ELSE r.ret,
     grown |-> r.grown, refused |-> r.refused]

Commit(r) ==
    /\ mem' = r.mem
    /\ brk' = r.brk
    /\ heap' = r.heap
    /\ freelists' = r.freelists
    /\ \E o \in (IF r.fault THEN UBOutcomes
                 ELSE IF r.smashed THEN {"smashed"} ELSE {"none"}) : fault' = o

\* the capacity of the block of p as its header records it
Capacity(m, p) == GET_SIZE([mem |-> m], Payload_get_header(p)) + Footer_size

Live == DOMAIN live

Grant(r) == (r.ret :> Capacity(r.mem, r.ret)) @@ live

Drop(p) == [q \in Live \ {p} |-> live[q]]

\* the break before mm_init: not aligned to 16, nor to 8
InitBreaks == {53}

InitWith(breaks, units) ==
    /\ inited = FALSE
    /\ brk \in breaks
    /\ limit = HeapMax(brk, units)
    /\ heap = NULL
    /\ freelists = [i \in 0 .. (NUM_LISTS - 1) |-> NULL]
    /\ mem = [a \in {} |-> 0]
    /\ fault = "none"
    /\ live = [p \in {} |-> 0]
    /\ last = [op |-> "start", ptr |-> NULL, size |-> 0, nmemb |-> 0,
               ret |-> NULL, grown |-> << >>, refused |-> 0]

Init == InitWith(InitBreaks, MaxUnits)

MmInit ==
    /\ ~inited /\ fault = "none"
    /\ \E j \in JunkWords :
         LET r == mm_init(State(j))
         IN /\ Commit(r)
            /\ inited' = (~r.fault /\ r.ok)
            /\ last' = Call("mm_init", NULL, 0, 0, [r EXCEPT !.ret = NULL])
    /\ UNCHANGED <<limit, live>>

MallocOf(sizes) ==
    /\ inited /\ fault = "none"
    /\ \E n \in sizes, j \in JunkWords :
         LET r == malloc(State(j), n)
         IN /\ Commit(r)
            /\ last' = Call("malloc", NULL, n, 0, r)
            /\ live' = IF r.fault \/ r.ret = NULL THEN live ELSE Grant(r)
    /\ UNCHANGED <<inited, limit>>

FreeOf(ptrs) ==
    /\ inited /\ fault = "none"
    /\ \E p \in ptrs :
         LET r == free(State(0), p)
         IN /\ Commit(r)
            /\ last' = Call("free", p, 0, 0, [r EXCEPT !.ret = NULL])
            /\ live' = Drop(p)
    /\ UNCHANGED <<inited, limit>>

ReallocOf(ptrs, sizes) ==
    /\ inited /\ fault = "none"
    /\ \E p \in ptrs, n \in sizes, j \in JunkWords, c \in CopyOrders :
         LET r == realloc(StateWith(j, c), p, n)
         IN /\ (c = "loadfirst" \/ r.overlapped)
            /\ Commit(r)
            /\ last' = Call("realloc", p, n, 0, r)
            /\ live' = IF r.fault THEN live
                       ELSE IF r.ret = NULL
                       THEN (IF n = 0 THEN Drop(p) ELSE live)
                       ELSE IF r.ret = p THEN live
                       ELSE (r.ret :> Capacity(r.mem, r.ret)) @@ Drop(p)
    /\ UNCHANGED <<inited, limit>>

CallocOf(counts, sizes) ==
    /\ inited /\ fault = "none"
    /\ \E k \in counts, n \in sizes, j \in JunkWords :
         LET r == calloc(State(j), k, n)
         IN /\ Commit(r)
            /\ last' = Call("calloc", NULL, n, k, r)
            /\ live' = IF r.fault \/ r.ret = NULL THEN live ELSE Grant(r)
    /\ UNCHANGED <<inited, limit>>

Malloc == MallocOf(Sizes)

Free == FreeOf(Live \cup {NULL})

Realloc == ReallocOf(Live \cup {NULL}, ReallocSizes)

Calloc == CallocOf(0 .. MaxNmemb, CallocSizes)

\* the word the caller stores at word k of a block: it differs from word to
\* word, fills three bytes, and reads as a boundary tag with both flag bits set
UserWord(k) == 51 + 64 * k + (BYTE * BYTE) * (k + 1)

RECURSIVE Fill(_, _, _, _)
Fill(m, p, k, n) ==
    IF k = n THEN m
    ELSE Fill(IF (p + 8 * k) \in DOMAIN m THEN [m EXCEPT ![p + 8 * k] = UserWord(k)] ELSE m,
              p, k + 1, n)

\* the caller fills the whole capacity of a live pointer, lent footer included
UserWrite ==
    /\ inited /\ fault = "none"
    /\ \E p \in Live :
         /\ mem' = Fill(mem, p, 0, live[p] \div 8)
         /\ mem' # mem
         /\ last' = [op |-> "write", ptr |-> p, size |-> live[p], nmemb |-> 0,
                     ret |-> NULL, grown |-> << >>, refused |-> 0]
    /\ UNCHANGED <<inited, brk, limit, heap, freelists, fault, live>>

Next == MmInit \/ Malloc \/ Free \/ Realloc \/ Calloc \/ UserWrite

Spec == Init /\ [][Next]_vars

----------------------------------------------------------------------------
(* The same calls from a break of every alignment, in a smaller region *)

AlignUnits == 2

AllBreaks == 48 .. 63

InitAlign == InitWith(AllBreaks, AlignUnits)

SpecAlign == InitAlign /\ [][Next]_vars

----------------------------------------------------------------------------
(* A wider region: room for three blocks, fewer request sizes *)

WideUnits == 7

InitWide == InitWith(InitBreaks, WideUnits)

MallocWide == MallocOf({24, 25})

FreeWide == FreeOf(Live)

ReallocWide == ReallocOf(Live, {SIZE_MOD - 1})

NextWide == MmInit \/ MallocWide \/ FreeWide \/ ReallocWide

SpecWide == InitWide /\ [][NextWide]_vars

----------------------------------------------------------------------------
(* Room for exactly three minimum blocks; requests of 16 and 40 bytes, and frees *)

\* The region ends 32 + 16 * ThreeUnits bytes above the aligned heap start.
ThreeUnits == 6

InitThree == InitWith(InitBreaks, ThreeUnits)

MallocThree == MallocOf({16, 40})

FreeThree == FreeOf(Live)

NextThree == MmInit \/ MallocThree \/ FreeThree

SpecThree == InitThree /\ [][NextThree]_vars

----------------------------------------------------------------------------
(* Room for three blocks of payload 240, blocks that go to list 14 *)

\* The region ends 32 + 16 * LargeUnits bytes above the aligned heap start.
LargeUnits == 48

\* requests with effective payloads 240 and 256
LargeSizes == {248, 264}

InitLarge == InitWith(InitBreaks, LargeUnits)

MallocLarge == MallocOf(LargeSizes)

FreeLarge == FreeOf(Live)

NextLarge == MmInit \/ MallocLarge \/ FreeLarge

SpecLarge == InitLarge /\ [][NextLarge]_vars

----------------------------------------------------------------------------
(* The three-block region again, with reads of the size field of given words *)

\* GET_SIZE applied to a location that holds the word w: a tag as the
\* allocator writes them, or a word with bit 2 or bit 3 set
ReadSize ==
    /\ inited /\ fault = "none"
    /\ \E w \in {0, 2, 16, 17, 19, 20, 24, 28, 31, 35, 44, SIZE_MOD - 1} :
         last' = [op |-> "GET_SIZE", ptr |-> NULL, size |-> w, nmemb |-> 0,
                  ret |-> GET_SIZE([mem |-> [a \in {NULL} |-> w]], NULL),
                  grown |-> << >>, refused |-> 0]
    /\ UNCHANGED <<inited, brk, limit, heap, freelists, mem, fault, live>>

NextTag == MmInit \/ MallocThree \/ FreeThree \/ ReadSize

SpecTag == InitThree /\ [][NextTag]_vars

----------------------------------------------------------------------------
(* The wider region again, with a caller that stores small integers *)

\* the integer 17; read as a boundary tag: payload size 16, free bit set
SmallWord == ALIGNMENT + 1

RECURSIVE FillWith(_, _, _, _, _)
FillWith(m, p, k, n, w) ==
    IF k = n THEN m
    ELSE FillWith(IF (p + 8 * k) \in DOMAIN m THEN [m EXCEPT ![p + 8 * k] = w] ELSE m,
                  p, k + 1, n, w)

\* the caller stores SmallWord in every word of a live pointer's capacity
UserSmall ==
    /\ inited /\ fault = "none"
    /\ \E p \in Live :
         /\ mem' = FillWith(mem, p, 0, live[p] \div 8, SmallWord)
         /\ mem' # mem
         /\ last' = [op |-> "write", ptr |-> p, size |-> live[p], nmemb |-> 0,
                     ret |-> NULL, grown |-> << >>, refused |-> 0]
    /\ UNCHANGED <<inited, brk, limit, heap, freelists, fault, live>>

NextSmall == MmInit \/ MallocWide \/ FreeWide \/ ReallocWide \/ UserSmall

SpecSmall == InitWide /\ [][NextSmall]_vars

----------------------------------------------------------------------------
(* Reading the heap: the blocks in address order *)

\* the headers met from header h on, stepping by 16 + payload size, up to the
\* first header of size 0 (the epilogue) or the first step outside the region
RECURSIVE WalkFrom(_, _, _)
WalkFrom(m, h, fuel) ==
    IF h \notin DOMAIN m \/ fuel = 0 THEN << >>
    ELSE LET size == m[h] - (m[h] % 4)
         IN IF size = 0 THEN <<h>>
            ELSE <<h>> \o WalkFrom(m, h + Header_size + size + Footer_size, fuel - 1)

\* all headers after the prologue, the epilogue last
Headers == WalkFrom(mem, heap + Header_size + Footer_size, Cardinality(DOMAIN mem))

HeaderSet == { Headers[i] : i \in 1 .. Len(Headers) }

AllocOps == {"malloc", "realloc", "calloc"}

Returned == last.op \in AllocOps /\ last.ret # NULL

\* the last call came back: no access outside the region was made
NoFault == fault \in {"none", "smashed"}

\* the break before mm_init, modulo 16 (limit = break + 15 + 32 + 16 * units)
BreakResidue == (limit - (ALIGNMENT - 1) - 32) % ALIGNMENT

\* address of the epilogue header: the last word below the break
EpilogueHeader == brk - Header_size

\* byte i (counted from p) of the region reads as zero; the bytes of a word
\* from LOW_BYTES up are zero in every word of the model
ZeroByte(p, i) ==
    LET w == mem[p + 8 * (i \div 8)]
        j == i % 8
    IN j >= LOW_BYTES \/ (w \div (BYTE ^ j)) % BYTE = 0

\* what malloc(n) makes of the current state
MallocNow(n) == malloc(State(0), n)

----------------------------------------------------------------------------
(* Properties of the entry points *)

C2_CapacityCoversRequest ==
    (NoFault /\ last.op = "malloc" /\ last.ret # NULL)
        => Capacity(mem, last.ret) >= last.size

\* C3: the capacity ranges of two distinct live pointers are disjoint, each lies
\* between the prologue and the epilogue header, none contains the header word
\* of a block, and the capacity of a live pointer is the one it was returned
\* with.
C3_LiveBlocksApart ==
    (NoFault /\ inited) =>
        /\ \A p \in Live, q \in Live :
             p # q => (p + Capacity(mem, p) <= q \/ q + Capacity(mem, q) <= p)
        /\ \A p \in Live :
             /\ heap + Header_size + Footer_size + Header_size <= p
             /\ p + Capacity(mem, p) <= EpilogueHeader
             /\ \A h \in HeaderSet : ~(p <= h /\ h < p + Capacity(mem, p))
             /\ Capacity(mem, p) = live[p]

\* C4: realloc(p, n) with p non-null, n above the capacity of p and a successful
\* inner malloc returns q # p whose block has capacity >= n and starts with the
\* capacity(p) bytes stored at p before the call, and the block of p is free
\* afterwards.
C4_ReallocGrowMoves ==
    [][(/\ last'.op = "realloc"
        /\ last'.ptr # NULL
        /\ last'.size > Capacity(mem, last'.ptr)
        /\ last'.ret # NULL
        /\ fault' \in {"none", "smashed"})
       => (/\ last'.ret # last'.ptr
           /\ Capacity(mem', last'.ret) >= last'.size
           /\ \A k \in 0 .. (Capacity(mem, last'.ptr) \div 8 - 1) :
                mem'[last'.ret + 8 * k] = mem[last'.ptr + 8 * k]
           /\ mem'[Payload_get_header(last'.ptr)] % 2 = 1)]_vars

\* C5: realloc(p, n) with p non-null and 1 <= n <= capacity(p) returns p and
\* leaves every heap word, the break and the 15 list heads unchanged.
C5_ReallocWithinCapacity ==
    [][(/\ last'.op = "realloc"
        /\ last'.ptr # NULL
        /\ last'.size >= 1
        /\ last'.size <= Capacity(mem, last'.ptr))
       => (/\ fault' = "none"
           /\ last'.ret = last'.ptr
           /\ UNCHANGED <<mem, brk, heap, freelists, live>>)]_vars

\* realloc was called with exactly the capacity of a block that holds user data
C5_Witness ==
    /\ fault = "none"
    /\ last.op = "realloc"
    /\ last.ptr # NULL
    /\ last.ret = last.ptr
    /\ last.size = Capacity(mem, last.ptr)
    /\ mem[last.ptr] = UserWord(0)

\* C6: a calloc(k, s) with k * s > 0 that succeeds returns a pointer whose first
\* k * s bytes are zero, also when the block it reuses held other data.
C6_CallocZeroes ==
    (NoFault /\ last.op = "calloc" /\ last.ret # NULL)
        => \A i \in 0 .. (MulW(last.size, last.nmemb) - 1) : ZeroByte(last.ret, i)

\* calloc reused, without growth, a block that user data had filled: the word
\* above the zeroed bytes still holds it
C6_Witness ==
    /\ fault = "none"
    /\ last.op = "calloc"
    /\ last.ret # NULL
    /\ last.grown = << >>
    /\ MulW(last.size, last.nmemb) = 20
    /\ Capacity(mem, last.ret) = 40
    /\ mem[last.ret + 24] = UserWord(3)

C8_ZeroRequest ==
    [][(\/ (last'.op = "malloc" /\ last'.size = 0)
        \/ (last'.op = "calloc" /\ MulW(last'.size, last'.nmemb) = 0))
       => (/\ last'.ret = NULL
           /\ fault' = "none"
           /\ last'.grown = << >>
           /\ last'.refused = 0
           /\ UNCHANGED <<mem, brk, heap, freelists, live>>)]_vars

\* malloc(0) was called while a free block that would serve a request was listed
C8_Witness ==
    /\ fault = "none"
    /\ last.op = "malloc"
    /\ last.size = 0
    /\ \E i \in 0 .. (NUM_LISTS - 1) : freelists[i] # NULL

\* C9: free(NULL) returns without reading or writing a heap word or a list head.
C9_FreeNullIsNoop ==
    [][(last'.op = "free" /\ last'.ptr = NULL)
       => (fault' = "none" /\ UNCHANGED <<mem, brk, heap, freelists, live>>)]_vars

\* C10: realloc(NULL, n) returns what malloc(n) returns from the same state and
\* leaves the same heap, break and list heads, for every n.
C10_ReallocNullIsMalloc ==
    [][(last'.op = "realloc" /\ last'.ptr = NULL)
       => (IF MallocNow(last'.size).fault
           THEN fault' \in UBOutcomes
           ELSE /\ fault' = "none"
                /\ last'.ret = MallocNow(last'.size).ret
                /\ mem' = MallocNow(last'.size).mem
                /\ brk' = MallocNow(last'.size).brk
                /\ freelists' = MallocNow(last'.size).freelists)]_vars

\* realloc(NULL, n) returned a block
C10_Witness ==
    /\ fault = "none"
    /\ last.op = "realloc"
    /\ last.ptr = NULL
    /\ last.size > 0
    /\ last.ret # NULL

----------------------------------------------------------------------------
(* Reading the heap: tags, blocks in heap order, nodes of the lists *)

SizeAt(h) == mem[h] - (mem[h] % 4)

FreeAt(h) == mem[h] % 2 = 1

PrevFreeAt(h) == (mem[h] \div 2) % 2 = 1

\* the walk from the prologue ended on the word below the break
WalkEndsAtBreak == Len(Headers) >= 1 /\ Headers[Len(Headers)] = EpilogueHeader

\* positions in Headers of the blocks before the one the walk ended on
UserBlocks == 1 .. (Len(Headers) - 1)

\* the list the size-class mapping assigns to a free block of payload size p
ClassOf(p) == IF p % 16 = 0 /\ p >= 16 /\ p <= 224 THEN p \div 16 - 1 ELSE NUM_LISTS - 1

\* the nodes met from node on, following next links
RECURSIVE ListWalk(_, _, _)
ListWalk(m, node, fuel) ==
    IF node = NULL \/ node \notin DOMAIN m \/ (node + 8) \notin DOMAIN m \/ fuel = 0
    THEN << >>
    ELSE <<node>> \o ListWalk(m, m[node + 8], fuel - 1)

ListNodes(i) == ListWalk(mem, freelists[i], Cardinality(DOMAIN mem))

\* how often list i reaches the payload address a
Occurrences(i, a) == Cardinality({ k \in 1 .. Len(ListNodes(i)) : ListNodes(i)[k] = a })

RECURSIVE SumLen(_)
SumLen(i) == IF i < 0 THEN 0 ELSE Len(ListNodes(i)) + SumLen(i - 1)

\* the blocks in heap order as <<payload size, free bit>>, up to the break b
RECURSIVE Shape(_, _, _, _)
Shape(m, h, b, fuel) ==
    IF h \notin DOMAIN m \/ h >= b - Header_size \/ fuel = 0 THEN << >>
    ELSE LET size == m[h] - (m[h] % 4)
         IN <<<<size, m[h] % 2>>>> \o Shape(m, h + Header_size + size + Footer_size, b, fuel - 1)

\* the state the call has left, as an allocator state for a further call
StateNext ==
    [mem |-> mem', brk |-> brk', heap |-> heap', freelists |-> freelists',
     fault |-> FALSE, ret |-> NULL, ok |-> TRUE, max |-> limit,
     junk |-> 0, copy |-> "loadfirst", overlapped |-> FALSE, smashed |-> FALSE,
     refused |-> 0, grown |-> << >>]

\* p lies in a free block of the walk over memory m whose two neighbours in
\* heap order are allocated and whose payload is a node of the list of its class
FreedAndIndexed(m, fl, hp, p) ==
    LET hs == WalkFrom(m, hp + 16, Cardinality(DOMAIN m))
        sz(h) == m[h] - (m[h] % 4)
    IN \E k \in 1 .. Len(hs) :
         /\ hs[k] < p /\ p <= hs[k] + Header_size + sz(hs[k])
         /\ m[hs[k]] % 2 = 1
         /\ (k > 1 => m[hs[k - 1]] % 2 = 0)
         /\ (k < Len(hs) => m[hs[k + 1]] % 2 = 0)
         /\ \E n \in 1 .. Len(ListWalk(m, fl[ClassOf(sz(hs[k]))], Cardinality(DOMAIN m))) :
              ListWalk(m, fl[ClassOf(sz(hs[k]))], Cardinality(DOMAIN m))[n] = hs[k] + Header_size

----------------------------------------------------------------------------
(* Claims on realloc(p, 0) and on the heap after each call *)

FreeNow(p) == free(State(0), p)

\* C11: realloc(p, 0) with p live returns NULL and leaves the heap words, the
\* break and the list heads that free(p) leaves from the same state; p's block
\* is free, has no free neighbour and is a node of the list of its class.
C11_ReallocZeroIsFree ==
    [][(last'.op = "realloc" /\ last'.ptr # NULL /\ last'.size = 0)
       => (IF FreeNow(last'.ptr).fault
           THEN fault' \in UBOutcomes
           ELSE /\ fault' = "none"
                /\ last'.ret = NULL
                /\ mem' = FreeNow(last'.ptr).mem
                /\ brk' = FreeNow(last'.ptr).brk
                /\ freelists' = FreeNow(last'.ptr).freelists
                /\ last'.ptr \notin DOMAIN live'
                /\ FreedAndIndexed(mem', freelists', heap', last'.ptr))]_vars

\* realloc(p, 0) ran on a live pointer whose block had a free neighbour
C11_Witness ==
    /\ fault = "none"
    /\ last.op = "realloc"
    /\ last.ptr # NULL
    /\ last.size = 0
    /\ last.ret = NULL
    /\ \E k \in 1 .. Len(Headers) :
         /\ Headers[k] < last.ptr /\ last.ptr <= Headers[k] + Header_size + SizeAt(Headers[k])
         /\ Headers[k] + Header_size # last.ptr

\* a call has returned and mm_init has succeeded
Settled == NoFault /\ inited

\* C12: after every completed call no two blocks adjacent in heap order are
\* both marked free.
C12_NoAdjacentFree ==
    Settled => \A i \in 1 .. (Len(Headers) - 1) :
                 ~(FreeAt(Headers[i]) /\ FreeAt(Headers[i + 1]))

C13_FreeBlocksIndexedOnce ==
    Settled => \A k \in 1 .. Len(Headers) : \A i \in 0 .. (NUM_LISTS - 1) :
                 Occurrences(i, Headers[k] + Header_size)
                   = (IF FreeAt(Headers[k]) /\ i = ClassOf(SizeAt(Headers[k])) THEN 1 ELSE 0)

\* C14: after every completed call bit 1 of every header from the first user
\* block through the epilogue equals bit 0 of the header of the block below it.
C14_PrevFreeBitMatches ==
    Settled => /\ Len(Headers) >= 1
               /\ PrevFreeAt(Headers[1]) = FreeAt(heap)
               /\ \A i \in 2 .. Len(Headers) :
                    PrevFreeAt(Headers[i]) = FreeAt(Headers[i - 1])

\* C15: after every completed call the footer word of every free block equals
\* its header word, whatever the caller stored in the block while it was live.
C15_FreeFooterMirrorsHeader ==
    Settled => \A k \in 1 .. Len(Headers) :
                 FreeAt(Headers[k])
                   => /\ (Headers[k] + Header_size + SizeAt(Headers[k])) \in DOMAIN mem
                      /\ mem[Headers[k] + Header_size + SizeAt(Headers[k])] = mem[Headers[k]]

\* C16: after every completed call the number of free blocks of the heap walk
\* equals the number of nodes of the 15 lists, and every list node is the
\* payload of a block of the walk that is marked free.
C16_FreeCountsAgree ==
    Settled => /\ Cardinality({k \in 1 .. Len(Headers) : FreeAt(Headers[k])}) = SumLen(NUM_LISTS - 1)
               /\ \A i \in 0 .. (NUM_LISTS - 1) : \A k \in 1 .. Len(ListNodes(i)) :
                    /\ (ListNodes(i)[k] - Header_size) \in HeaderSet
                    /\ FreeAt(ListNodes(i)[k] - Header_size)

\* C18: in every state after a completed call the walk from the prologue ends
\* on the epilogue and every block before it has a payload size that is a
\* multiple of 16 and at least 16.
C18_PayloadSizesAligned ==
    Settled => /\ WalkEndsAtBreak
               /\ \A k \in UserBlocks :
                    SizeAt(Headers[k]) % ALIGNMENT = 0 /\ SizeAt(Headers[k]) >= Payload_min_size

----------------------------------------------------------------------------
(* Claims on malloc followed by free, and on the payload sizes malloc grants *)

\* free(p) run on the state the call has left
FreeNext(p) == free(StateNext, p)

\* free of the pointer the call returned leads back to the break and to the
\* heap-order sequence of payload sizes and free bits the call started from
FreeRestores ==
    /\ ~FreeNext(last'.ret).fault
    /\ FreeNext(last'.ret).brk = brk
    /\ Shape(FreeNext(last'.ret).mem, heap + Header_size + Footer_size,
             FreeNext(last'.ret).brk, Cardinality(DOMAIN mem'))
         = Shape(mem, heap + Header_size + Footer_size, brk, Cardinality(DOMAIN mem))

\* C19 as stated: from every reachable state and for every n >= 1,
\* p = malloc(n); free(p) leaves the break and the heap-order sequence of
\* payload sizes and free bits that were there before malloc.
C19_AllocFreeRestores ==
    [][(last'.op = "malloc" /\ last'.size >= 1 /\ fault' = "none") => FreeRestores]_vars

\* C19 amended: the same, for the calls of malloc(n), n >= 1, that return a
\* block without extending the heap.
C19_AllocFreeRestoresNoGrowth ==
    [][(last'.op = "malloc" /\ last'.size >= 1 /\ fault' = "none"
          /\ last'.ret # NULL /\ last'.grown = << >>)
       => FreeRestores]_vars

\* malloc returned the front part of a free block it split, without extending
\* the heap: the block above the returned one is the free remainder
C19_Witness ==
    /\ fault = "none"
    /\ last.op = "malloc"
    /\ last.size >= 1
    /\ last.ret # NULL
    /\ last.grown = << >>
    /\ (last.ret - Header_size) \in HeaderSet
    /\ FreeAt(last.ret + SizeAt(last.ret - Header_size) + Footer_size)
    /\ SizeAt(last.ret + SizeAt(last.ret - Header_size) + Footer_size) >= Payload_min_size

\* the requests of the footer optimization table, in bytes
SmallRequests == 1 .. 25

\* the payload size the table gives for a request of n bytes
TablePayload(n) == IF n <= 24 THEN 16 ELSE 32

\* the payload size recorded in the header of the block malloc(n) returns now
GrantedPayload(n) ==
    MallocNow(n).mem[MallocNow(n).ret - Header_size]
      - (MallocNow(n).mem[MallocNow(n).ret - Header_size] % 4)

\* malloc(n) called now returns a block
Grants(n) == ~MallocNow(n).fault /\ MallocNow(n).ret # NULL

\* C20 as stated: in every reachable state malloc(n) returns, for each n in
\* 1..24, a block whose header records a 16-byte payload, and for n = 25 a
\* block whose header records a 32-byte payload.
C20_TablePayloads ==
    (fault = "none" /\ inited)
      => \A n \in SmallRequests : Grants(n) => GrantedPayload(n) = TablePayload(n)

\* C20 amended: the header of the block malloc(n) returns records the payload
\* of the table or 16 bytes more; it records 16 bytes more only when malloc
\* did not extend the heap and the block it took was a free block of exactly
\* that size, which is too small to split.
C20_TablePayloadsOrUnsplit ==
    (fault = "none" /\ inited)
      => \A n \in SmallRequests :
           Grants(n)
             => \/ GrantedPayload(n) = TablePayload(n)
                \/ /\ GrantedPayload(n) = TablePayload(n) + ALIGNMENT
                   /\ MallocNow(n).grown = << >>
                   /\ FreeAt(MallocNow(n).ret - Header_size)
                   /\ SizeAt(MallocNow(n).ret - Header_size) = TablePayload(n) + ALIGNMENT

\* malloc(1) returned a whole block of payload 32 when a free block of payload
\* 48 was not at hand
C20_Witness ==
    /\ fault = "none"
    /\ last.op = "malloc"
    /\ last.size = 1
    /\ last.ret # NULL
    /\ last.grown = << >>
    /\ SizeAt(last.ret - Header_size) = 2 * ALIGNMENT
    /\ ~FreeAt(last.ret - Header_size)

----------------------------------------------------------------------------
(* Claims on heap growth, merging, reuse, search and placement *)

\* C21: over every step the break does not decrease, and every increment the
\* call of the step passed to mm_sbrk is greater than 0.
C21_GrowOnly ==
    [][/\ brk' >= brk
       /\ \A k \in 1 .. Len(last'.grown) : last'.grown[k] > 0]_vars

\* the step is a call free(p) that returned, p being the payload of the k-th
\* block of the heap walk, an allocated block between two free blocks
FreesBetweenFree(k) ==
    /\ fault = "none" /\ fault' = "none"
    /\ last'.op = "free"
    /\ last'.ptr = Headers[k] + Header_size
    /\ ~FreeAt(Headers[k])
    /\ FreeAt(Headers[k - 1])
    /\ FreeAt(Headers[k + 1])

\* the payload of the block that covers blocks k-1, k and k+1 of the walk
MergedPayload(k) ==
    SizeAt(Headers[k - 1]) + SizeAt(Headers[k]) + SizeAt(Headers[k + 1])
      + 2 * (Header_size + Footer_size)

\* C22: free of a block whose lower and upper neighbours are both free leaves
\* one free block in place of the three, of payload the three payloads + 32,
\* with a matching footer, reached once from the list of that size and from
\* no other list.
C22_FreeBetweenFreeMerges ==
    [][\A k \in 2 .. (Len(Headers) - 2) :
         FreesBetweenFree(k)
           => /\ mem'[Headers[k - 1]] - (mem'[Headers[k - 1]] % 4) = MergedPayload(k)
              /\ mem'[Headers[k - 1]] % 2 = 1
              /\ mem'[Headers[k - 1] + Header_size + MergedPayload(k)] = mem'[Headers[k - 1]]
              /\ WalkFrom(mem', heap' + Header_size + Footer_size, Cardinality(DOMAIN mem'))
                   = SubSeq(Headers, 1, k - 1) \o SubSeq(Headers, k + 2, Len(Headers))
              /\ \A i \in 0 .. (NUM_LISTS - 1) :
                   Cardinality({ n \in 1 .. Len(ListWalk(mem', freelists'[i], Cardinality(DOMAIN mem'))) :
                                   ListWalk(mem', freelists'[i], Cardinality(DOMAIN mem'))[n]
                                     = Headers[k - 1] + Header_size })
                     = (IF i = ClassOf(MergedPayload(k)) THEN 1 ELSE 0)]_vars

\* after a = malloc, b = malloc, c = malloc of payload 16 each and free(a),
\* free(c), free(b): the heap holds one free block, of payload 80, in list 4
C22_Witness ==
    /\ fault = "none"
    /\ last.op = "free"
    /\ Len(Headers) = 2
    /\ FreeAt(Headers[1])
    /\ SizeAt(Headers[1]) = 80
    /\ last.ptr = Headers[1] + Header_size + Payload_min_size + Footer_size + Header_size
    /\ freelists[4] = Headers[1] + Header_size
    /\ \A i \in 0 .. (NUM_LISTS - 1) : i # 4 => freelists[i] = NULL
    /\ Live = {}

\* malloc(n) run on the state the call has left
MallocNext(n) == malloc(StateNext, n)

\* the step is free(p) directly after p = malloc(n), n >= 1, returned a block
FreesLastMalloc ==
    /\ fault = "none" /\ fault' = "none"
    /\ last.op = "malloc"
    /\ last.size >= 1
    /\ last.ret # NULL
    /\ last'.op = "free"
    /\ last'.ptr = last.ret

\* C23: after p = malloc(n), n >= 1, returned a block and free(p) followed
\* directly, q = malloc(n) returns q = p and does not call mm_sbrk.
C23_FreedSlotReused ==
    [][FreesLastMalloc
       => /\ ~MallocNext(last.size).fault
          /\ MallocNext(last.size).ret = last.ret
          /\ MallocNext(last.size).grown = << >>
          /\ MallocNext(last.size).refused = 0]_vars

\* a block of payload 16 that was free has been handed out again while list 0
\* holds another block of payload 16
C23_Witness ==
    /\ fault = "none"
    /\ last.op = "malloc"
    /\ last.ret # NULL
    /\ last.grown = << >>
    /\ SizeAt(last.ret - Header_size) = Payload_min_size
    /\ freelists[0] # NULL
    /\ freelists[0] # last.ret

\* the requests the search is tried with in every state
FitRequests == {1, 24, 25, 232, 233, 248, 249, 264, 265, 504, 505}

\* the header the search returns for a request of n bytes, called now
FindNow(n) == Segregated_find_free_block(State(0), n)

\* the non-empty lists among ClassOf(need) .. 13
ClassLists(need) == { i \in ClassOf(need) .. (NUM_LISTS - 2) : freelists[i] # NULL }

\* the positions in list 14 of the blocks whose payload + 8 covers n
FittingInLast(n) ==
    { k \in 1 .. Len(ListNodes(NUM_LISTS - 1)) :
        SizeAt(ListNodes(NUM_LISTS - 1)[k] - Header_size) + Footer_size >= n }

\* the header the claim names for a request of n bytes
FitByClaim(n) ==
    IF ClassLists(SearchSize(n)) # {}
    THEN freelists[CHOOSE i \in ClassLists(SearchSize(n)) :
                     \A j \in ClassLists(SearchSize(n)) : i <= j] - Header_size
    ELSE IF FittingInLast(n) # {}
    THEN ListNodes(NUM_LISTS - 1)[CHOOSE k \in FittingInLast(n) :
                                    \A j \in FittingInLast(n) : k <= j] - Header_size
    ELSE NULL

PlaceRequests == {1, 16, 24, 25, 40}

\* allocate(header, n) called now on the block the search returns for n
PlaceNow(n) == allocate(State(0), FindNow(n).ret, n)

\* how often list i of the allocator state r reaches the payload address a
OccurrencesIn(r, i, a) ==
    Cardinality({ k \in 1 .. Len(ListWalk(r.mem, r.freelists[i], Cardinality(DOMAIN r.mem))) :
                    ListWalk(r.mem, r.freelists[i], Cardinality(DOMAIN r.mem))[k] = a })

\* r is the split of the free block at header h, of payload p, for a need:
\* an allocated front of payload need, then a free tail of payload
\* p - need - 16 with bit 1 clear, a footer equal to its header, and a node in
\* the list of its size
SplitInto(r, h, p, need) ==
    /\ r.mem[h] - (r.mem[h] % 4) = need
    /\ r.mem[h] % 2 = 0
    /\ r.mem[h + Header_size + need + Footer_size] = (p - need - 16) + 1
    /\ r.mem[h + Header_size + p] = (p - need - 16) + 1
    /\ \A i \in 0 .. (NUM_LISTS - 1) :
         /\ OccurrencesIn(r, i, h + Header_size) = 0
         /\ OccurrencesIn(r, i, h + Header_size + need + Footer_size + Header_size)
              = (IF i = ClassOf(p - need - 16) THEN 1 ELSE 0)

\* r is the block at header h, of payload p, handed out whole: allocated, in
\* no list, and bit 1 of the header above it clear
WholeBlock(r, h, p) ==
    /\ r.mem[h] - (r.mem[h] % 4) = p
    /\ r.mem[h] % 2 = 0
    /\ (r.mem[h + Header_size + p + Footer_size] \div 2) % 2 = 0
    /\ \A i \in 0 .. (NUM_LISTS - 1) : OccurrencesIn(r, i, h + Header_size) = 0

\* C25: placing a request of effective payload need into the free block of
\* payload p the search returned splits the block iff p - need >= 32; if not,
\* the whole block is allocated; the payload address of the block is returned.
C25_SplitOnSurplus ==
    (fault = "none" /\ inited)
      => \A n \in PlaceRequests :
           FindNow(n).ret # NULL
             => /\ ~PlaceNow(n).fault
                /\ PlaceNow(n).ret = FindNow(n).ret + Header_size
                /\ IF SizeAt(FindNow(n).ret) - RequiredPayload(n) >= 32
                   THEN SplitInto(PlaceNow(n), FindNow(n).ret, SizeAt(FindNow(n).ret),
                                  RequiredPayload(n))
                   ELSE WholeBlock(PlaceNow(n), FindNow(n).ret, SizeAt(FindNow(n).ret))

\* malloc(24) has split a free block of payload 48 into an allocated block of
\* payload 16 and a free block of payload 16, the head of list 0
C25_Witness ==
    /\ fault = "none"
    /\ last.op = "malloc"
    /\ last.size = 24
    /\ last.grown = << >>
    /\ last.ret # NULL
    /\ SizeAt(last.ret - Header_size) = 16
    /\ mem[last.ret + 16 + Footer_size] = 16 + 1
    /\ freelists[0] = last.ret + 16 + Footer_size + Header_size
    /\ ~FreeAt(last.ret + 16 + Footer_size + Header_size + 16 + Footer_size)
    /\ Len(Headers) = 3

----------------------------------------------------------------------------
(* Claims on heap extension, on the retry of malloc and on the effective payload *)

\* the requests extension is tried with in every state
ExtendRequests == {1, 24, 25, 40, SIZE_MOD - 9, SIZE_MOD - 1}

\* extend_memory(n) called now
ExtendNow(n) == extend_memory(State(0), n)

\* the header of the last user block, or the prologue header if there is none
LastHeader == IF Len(Headers) >= 2 THEN Headers[Len(Headers) - 1] ELSE heap

\* e holds at header h a free block of payload p whose bit 1 is b, with a
\* footer equal to the header, reached once from the list of its size
FreeBlockIn(e, h, p, b) ==
    /\ e.mem[h] = p + 1 + (IF b THEN 2 ELSE 0)
    /\ e.mem[h + Header_size + p] = e.mem[h]
    /\ \A i \in 0 .. (NUM_LISTS - 1) :
         OccurrencesIn(e, i, h + Header_size) = (IF i = ClassOf(p) THEN 1 ELSE 0)

\* C26: when the search finds no fit for n, extend_memory asks mm_sbrk once,
\* for need + 16 bytes.  If that is refused nothing changes.  If it is granted,
\* the break rises by need + 16, the word below the new break is an epilogue
\* header (size 0, allocated, bit 1 set), and the old epilogue header is the
\* header of a free block of payload need with the old epilogue's bit 1; or,
\* if the last user block was free, that block has grown to payload
\* size(last) + 16 + need and absorbed the new block.
C26_ExtendByNeed ==
    (fault = "none" /\ inited)
      => \A n \in ExtendRequests :
           FindNow(n).ret = NULL
             => IF brk + RequiredPayload(n) + 16 > limit
                THEN /\ ~ExtendNow(n).fault
                     /\ ~ExtendNow(n).ok
                     /\ ExtendNow(n).grown = << >>
                     /\ ExtendNow(n).refused = 1
                     /\ ExtendNow(n).mem = mem
                     /\ ExtendNow(n).brk = brk
                     /\ ExtendNow(n).freelists = freelists
                ELSE /\ ~ExtendNow(n).fault
                     /\ ExtendNow(n).ok
                     /\ ExtendNow(n).grown = <<RequiredPayload(n) + 16>>
                     /\ ExtendNow(n).refused = 0
                     /\ ExtendNow(n).brk = brk + RequiredPayload(n) + 16
                     /\ ExtendNow(n).mem[ExtendNow(n).brk - Header_size] = 2
                     /\ IF PrevFreeAt(EpilogueHeader)
                        THEN FreeBlockIn(ExtendNow(n), LastHeader,
                                         SizeAt(LastHeader) + 16 + RequiredPayload(n),
                                         PrevFreeAt(LastHeader))
                        ELSE FreeBlockIn(ExtendNow(n), EpilogueHeader, RequiredPayload(n), FALSE)

\* C27: every call malloc(n), n >= 1, calls mm_sbrk at most once, and when the
\* search missed and mm_sbrk granted the increment the call returns a block.
C27_OneExtensionPerCall ==
    [][(last'.op = "malloc" /\ last'.size >= 1)
       => /\ Len(last'.grown) + last'.refused <= 1
          /\ last'.grown # << >> => (fault' = "none" /\ last'.ret # NULL)]_vars

\* n - 8, or 0 if n < 8
MinusFooter(n) == IF n <= 8 THEN 0 ELSE n - 8

\* max(align_up(n - 8, 16), 16) in the integers, the subtraction stopping at 0
NeedByClaim(n) ==
    IF ALIGNMENT * ((MinusFooter(n) + ALIGNMENT - 1) \div ALIGNMENT) > Payload_min_size
    THEN ALIGNMENT * ((MinusFooter(n) + ALIGNMENT - 1) \div ALIGNMENT)
    ELSE Payload_min_size

\* C28: for the request n >= 1 of every call of malloc, the search on one side
\* and placement and extension on the other compute the same effective
\* payload, and it is max(align_up(n - 8, 16), 16).
C28_EffectivePayload ==
    [][(last'.op = "malloc" /\ last'.size >= 1)
       => /\ SearchSize(last'.size) = RequiredPayload(last'.size)
          /\ RequiredPayload(last'.size) = NeedByClaim(last'.size)]_vars

----------------------------------------------------------------------------
(* Claims on mm_init and on the steps between neighbouring headers *)

\* the first 16-byte-aligned address at or above b
AlignedAtOrAbove(b) == ALIGNMENT * ((b + ALIGNMENT - 1) \div ALIGNMENT)

\* C29: a successful mm_init started at break b leaves, with A the first
\* 16-byte-aligned address at or above b: heap = A + 8, the words at A + 8,
\* A + 16 and A + 24 equal to 0 (size 0, allocated, bit 1 clear), the break at
\* A + 32 and 15 empty lists; it has asked mm_sbrk for one byte A - b + 1 times,
\* at most 16 times, and then for 31 bytes.
C29_InitLayout ==
    [][(last'.op = "mm_init" /\ inited')
       => /\ fault' = "none"
          /\ heap' = AlignedAtOrAbove(brk) + 8
          /\ mem'[AlignedAtOrAbove(brk) + 8] = 0
          /\ mem'[AlignedAtOrAbove(brk) + 16] = 0
          /\ mem'[AlignedAtOrAbove(brk) + 24] = 0
          /\ brk' = AlignedAtOrAbove(brk) + 32
          /\ \A i \in 0 .. (NUM_LISTS - 1) : freelists'[i] = NULL
          /\ Len(last'.grown) = (AlignedAtOrAbove(brk) - brk + 1) + 1
          /\ Len(last'.grown) - 1 <= 16
          /\ \A k \in 1 .. (Len(last'.grown) - 1) : last'.grown[k] = 1
          /\ last'.grown[Len(last'.grown)] = 31
          /\ last'.refused = 0]_vars

\* mm_init has succeeded from a break one byte above an aligned address, after
\* 16 one-byte requests
C29_Witness ==
    /\ fault = "none"
    /\ inited
    /\ last.op = "mm_init"
    /\ Len(last.grown) = 17
    /\ brk % ALIGNMENT = 0
    /\ heap = brk - 24

----------------------------------------------------------------------------
(* The steps between neighbouring headers that each operation takes *)

\* the words the caller owns: the capacity of every pointer of the map l
Owned(l) == UNION { { p + 8 * k : k \in 0 .. ((l[p] \div 8) - 1) } : p \in DOMAIN l }

\* a call of Header_get_next_header(header) in s: in order unless header is
\* the epilogue header, the last word below the break
NextStep(s, header) ==
    IF s.fault THEN {}
    ELSE {[step |-> "next", from |-> header,
           ok |-> header # s.brk - Header_size]}

\* a call of Header_get_prev_header(header) in s, the caller owning the words
\* of own: in order when bit 1 of the header is set, the header is not the
\* first one after the prologue, and the word read as a footer, at header - 8,
\* is not a word of the caller
PrevStep(s, header, own) ==
    IF s.fault THEN {}
    ELSE {[step |-> "prev", from |-> header,
           ok |-> /\ GET_PREV_BLOCK_FREE_BIT(s, header)
                  /\ header # s.heap + Header_size + Footer_size
                  /\ W(header - Footer_size) \notin own]}

coalesce_left_steps(s, header, own) ==
    With(Touch(s, header), LAMBDA s0 :
    IF s0.fault THEN {}
    ELSE IF ~GET_FREE_BIT(s0, header) THEN {}
    ELSE IF ~GET_PREV_BLOCK_FREE_BIT(s0, header) THEN {}
    ELSE PrevStep(Touch(s0, W(header - Footer_size)), header, own))

coalesce_steps(s, header, own) ==
    With(Touch(s, header), LAMBDA s0 :
    With(Header_get_next_header(s0, header), LAMBDA next_header :
    With(coalesce_left(s0, next_header), LAMBDA s1 :
    NextStep(s0, header)
      \cup coalesce_left_steps(s0, next_header, own)
      \cup coalesce_left_steps(s1, header, own))))

extend_memory_steps(s, size0, own) ==
    With(RequiredPayload(size0), LAMBDA size :
    With(W(size + Footer_size + Header_size), LAMBDA incr :
    With(mm_sbrk(s, incr), LAMBDA sb :
    With(sb.ret, LAMBDA payload :
    IF sb.fault \/ payload = SBRK_FAIL THEN {}
    ELSE
    With(Payload_get_header(payload), LAMBDA header :
    With(Touch(sb, header), LAMBDA s0 :
    With(GET_PREV_BLOCK_FREE_BIT(s0, header), LAMBDA prev_block_free :
    With(SET_VALUE(s0, header, size, TRUE, prev_block_free), LAMBDA s1 :
    With(Header_get_footer(s1, header), LAMBDA footer :
    With(SET_VALUE(s1, footer, size, TRUE, prev_block_free), LAMBDA s2 :
    With(Header_get_next_header(s2, header), LAMBDA next_header :
    With(SET_VALUE(s2, next_header, 0, FALSE, TRUE), LAMBDA s3 :
    With(Segregated_insert_header(s3, header), LAMBDA s4 :
    NextStep(s2, header) \cup coalesce_steps(s4, header, own))))))))))))))

allocate_split_steps(s, header, new_size) ==
    With(Segregated_remove_header(s, header), LAMBDA a1 :
    With(SET_VALUE(a1, header, new_size, TRUE, FALSE), LAMBDA a2 :
    With(Header_get_footer(a2, header), LAMBDA footer1 :
    With(SET_VALUE(a2, footer1, new_size, TRUE, FALSE), LAMBDA a3 :
    With(Segregated_insert_header(a3, header), LAMBDA a4 :
    NextStep(a4, header))))))

allocate_steps(s, header, size0) ==
    With(RequiredPayload(size0), LAMBDA size :
    With(Touch(s, header), LAMBDA st :
    With(W(GET_SIZE(st, header) - size) >= Block_min_size, LAMBDA splits :
    With(IF splits THEN allocate_split(st, header, size) ELSE st, LAMBDA b0 :
    With(Segregated_remove_header(b0, header), LAMBDA b1 :
    (IF splits THEN allocate_split_steps(st, header, size) ELSE {})
      \cup NextStep(b1, header))))))

RECURSIVE malloc_steps(_, _, _, _)
malloc_steps(s, size, depth, own) ==
    IF s.fault \/ size = 0 THEN {}
    ELSE
    With(Segregated_find_free_block(s, size), LAMBDA f :
    With(f.ret, LAMBDA header :
    IF f.fault THEN {}
    ELSE IF header = NULL
    THEN With(extend_memory(f, size), LAMBDA e :
         extend_memory_steps(f, size, own)
           \cup (IF ~e.fault /\ e.ok /\ depth > 0
                 THEN malloc_steps(e, size, depth - 1, own) ELSE {}))
    ELSE allocate_steps(f, header, size)))

free_steps(s, ptr, own) ==
    With(Payload_get_header(ptr), LAMBDA header :
    With(SET_FREE_BIT(s, header, TRUE), LAMBDA s1 :
    With(mirror_header_to_footer(s1, header), LAMBDA s2 :
    With(Header_get_next_header(s2, header), LAMBDA next_header :
    With(SET_PREV_BLOCK_FREE_BIT(s2, next_header, TRUE), LAMBDA s3 :
    With(Segregated_insert_header(s3, header), LAMBDA s4 :
    NextStep(s2, header) \cup coalesce_steps(s4, header, own)))))))

realloc_steps(s, oldptr, size, l) ==
    IF oldptr = NULL
    THEN malloc_steps(s, size, Cardinality(DOMAIN s.mem) + 2, Owned(l))
    ELSE IF size = 0
    THEN free_steps(s, oldptr, Owned([q \in DOMAIN l \ {oldptr} |-> l[q]]))
    ELSE
    With(Payload_get_header(oldptr), LAMBDA header :
    With(Touch(s, header), LAMBDA s0 :
    IF s0.fault THEN {}
    ELSE
    With(GET_SIZE(s0, header), LAMBDA payload_size :
    IF W(payload_size + Footer_size) >= size THEN {}
    ELSE
    With(malloc(s0, size), LAMBDA m :
    malloc_steps(s0, size, Cardinality(DOMAIN s0.mem) + 2, Owned(l))
      \cup (IF m.fault \/ m.ret = NULL THEN {}
            ELSE free_steps(mem_memcpy(m, m.ret, oldptr, W(payload_size + Footer_size)),
                            oldptr,
                            Owned((m.ret :> Capacity(m.mem, m.ret))
                                    @@ [q \in DOMAIN l \ {oldptr} |-> l[q]])))))))

calloc_steps(s, nmemb, size0, own) ==
    malloc_steps(s, MulW(size0, nmemb), Cardinality(DOMAIN s.mem) + 2, own)

mm_init_steps(s) ==
    With(mm_init(s), LAMBDA r :
    IF r.fault \/ ~r.ok THEN {}
    ELSE NextStep(r, r.heap))

\* the steps of the call recorded in c, made in the state before it
StepsOf(c) ==
    UNION { IF c.op = "mm_init" THEN mm_init_steps(StateWith(j, o))
            ELSE IF c.op = "malloc"
            THEN malloc_steps(StateWith(j, o), c.size, Cardinality(DOMAIN mem) + 2,
                              Owned(live))
            ELSE IF c.op = "free" THEN free_steps(StateWith(j, o), c.ptr, Owned(Drop(c.ptr)))
            ELSE IF c.op = "realloc" THEN realloc_steps(StateWith(j, o), c.ptr, c.size, live)
            ELSE IF c.op = "calloc"
            THEN calloc_steps(StateWith(j, o), c.nmemb, c.size, Owned(live))
            ELSE {} : j \in JunkWords, o \in CopyOrders }

\* C30: on every call of every operation the steps between headers are in
\* order: the next-header step is never taken from the epilogue header, and
\* the previous-header step is taken only from a header whose bit 1 is set,
\* never from the first header after the prologue, and never when the word
\* below the header, read as a footer, is a word of a block the caller holds.
C30_NavigatorInOrder ==
    [][\A c \in StepsOf(last') : c.ok]_vars

----------------------------------------------------------------------------
(* Claims on the merges of free, the lists, the tiling and the caller's bytes *)

\* the number of free blocks met by the walk over memory m of the heap at hp
NumFree(m, hp) ==
    Cardinality({ i \in 1 .. Len(WalkFrom(m, hp + Header_size + Footer_size,
                                          Cardinality(DOMAIN m))) :
                    m[WalkFrom(m, hp + Header_size + Footer_size,
                               Cardinality(DOMAIN m))[i]] % 2 = 1 })

\* C31: free(p) merges p's block with its right neighbour if that is free,
\* then with its left neighbour if that is free, and with nothing else: the
\* number of free blocks grows by 1, stays, or falls by 1. The merge to the
\* right comes first: it has rewritten p's own header with the size of the two
\* blocks, and the merge to the left has then covered the three. Checked on
\* every call free(p) and realloc(p, 0) that returns, p being the payload of
\* the k-th block of the heap walk.
C31_FreeMergesRightThenLeft ==
    [][\A k \in UserBlocks :
         LET RightFree == FreeAt(Headers[k + 1])
             LeftFree == k > 1 /\ FreeAt(Headers[k - 1])
         IN (/\ fault = "none" /\ fault' = "none"
             /\ \/ last'.op = "free"
                \/ last'.op = "realloc" /\ last'.size = 0
             /\ last'.ptr = Headers[k] + Header_size
             /\ ~FreeAt(Headers[k]))
           => /\ NumFree(mem', heap') = NumFree(mem, heap) + 1
                   - (IF RightFree THEN 1 ELSE 0) - (IF LeftFree THEN 1 ELSE 0)
              /\ NumFree(mem', heap') - NumFree(mem, heap) \in {1, 0, -1}
              /\ RightFree
                   => mem'[Headers[k]]
                        = OrFlags(SizeAt(Headers[k]) + Header_size + Footer_size
                                    + SizeAt(Headers[k + 1]),
                                  1 + (IF LeftFree THEN 2 ELSE 0))
              /\ ~RightFree
                   => mem'[Headers[k]]
                        = OrFlags(SizeAt(Headers[k]), 1 + (IF LeftFree THEN 2 ELSE 0))
              /\ LeftFree
                   => mem'[Headers[k - 1]] - (mem'[Headers[k - 1]] % 4)
                        = SizeAt(Headers[k - 1]) + Header_size + Footer_size
                            + SizeAt(Headers[k])
                            + (IF RightFree
                               THEN Header_size + Footer_size + SizeAt(Headers[k + 1])
                               ELSE 0)]_vars

\* free(b) has merged b's block, of payload 16, first with the free block
\* above it (b's old header reads payload 48) and then with the free block
\* below it: one free block of payload 80 is left
C31_Witness ==
    /\ fault = "none"
    /\ last.op = "free"
    /\ NumFree(mem, heap) = 1
    /\ Len(Headers) = 2
    /\ SizeAt(Headers[1]) = 80
    /\ last.ptr - Header_size # Headers[1]
    /\ mem[last.ptr - Header_size] = OrFlags(48, 3)

\* C32: in every state a completed call has left, each of the 15 lists ends on
\* a null link (the walk from its head stops on a node whose next link is
\* NULL, or the head is NULL) and meets no node twice, its head has a null prev link, every
\* node with a successor is the prev of that successor, and no node is met by
\* two lists.
C32_ListsWellFormed ==
    (NoFault /\ inited)
      => /\ \A i \in 0 .. (NUM_LISTS - 1) :
              /\ IF ListNodes(i) = << >> THEN freelists[i] = NULL
                 ELSE mem[ListNodes(i)[Len(ListNodes(i))] + 8] = NULL
              /\ \A k \in 1 .. Len(ListNodes(i)) : Occurrences(i, ListNodes(i)[k]) = 1
              /\ ListNodes(i) # << >> => mem[ListNodes(i)[1]] = NULL
              /\ \A k \in 1 .. (Len(ListNodes(i)) - 1) :
                   mem[ListNodes(i)[k + 1]] = ListNodes(i)[k]
         /\ \A i, j \in 0 .. (NUM_LISTS - 1) :
              i # j => \A k \in 1 .. Len(ListNodes(i)) : Occurrences(j, ListNodes(i)[k]) = 0

\* the bytes of the blocks 1 .. k of the heap walk, tags included
RECURSIVE BlockBytes(_)
BlockBytes(k) ==
    IF k = 0 THEN 0
    ELSE Header_size + SizeAt(Headers[k]) + Footer_size + BlockBytes(k - 1)

\* C33: in every state a completed call has left, the walk from the prologue
\* by steps of 16 + payload size ends on the epilogue header, of size 0, on
\* the word below the break; the allocated blocks it meets are exactly the
\* blocks the caller holds; and the 8 bytes of pad, the 16 of the prologue,
\* the bytes of the blocks and the 8 of the epilogue header add up to the
\* distance from the pad to the break.
C33_BlocksTileHeap ==
    (NoFault /\ inited)
      => /\ WalkEndsAtBreak
         /\ SizeAt(EpilogueHeader) = 0
         /\ SizeAt(heap) = 0
         /\ { Headers[k] + Header_size : k \in { n \in UserBlocks : ~FreeAt(Headers[n]) } }
              = Live
         /\ 8 + (Header_size + Footer_size) + BlockBytes(Len(Headers) - 1) + Header_size
              = brk - (heap - 8)

\* C34: a call of malloc, free, realloc or calloc that returns leaves every
\* word of the capacity of every live pointer as it was, except for the
\* pointer the call frees and the pointer it returns.
C34_OtherLiveBlocksUntouched ==
    [][(fault = "none" /\ fault' \in {"none", "smashed"}
          /\ last'.op \in {"malloc", "free", "realloc", "calloc"})
       => \A q \in Live \ {last'.ptr, last'.ret} :
            \A a \in Owned([x \in {q} |-> live[x]]) :
              a \in DOMAIN mem' /\ mem'[a] = mem[a]]_vars

----------------------------------------------------------------------------
(* Claim on the size field of a boundary tag *)

\* bits 2 and 3 are zero in every header of the heap walk, the prologue's
\* included, and in the footer of every free block
ReservedBitsClear ==
    LET ReservedClear(w) == (w \div 4) % 4 = 0
    IN
    /\ ReservedClear(mem[heap])
    /\ \A k \in 1 .. Len(Headers) :
         /\ ReservedClear(mem[Headers[k]])
         /\ (FreeAt(Headers[k])
               /\ (Headers[k] + Header_size + SizeAt(Headers[k])) \in DOMAIN mem)
              => ReservedClear(mem[Headers[k] + Header_size + SizeAt(Headers[k])])

\* C35: GET_SIZE of a word w is w with bits 0 to 3 cleared, also when bit 2 or
\* bit 3 of w is set; and in every state a completed call has left, bits 2 and
\* 3 of every header word and of every free block's footer word are zero.
C35_SizeMasksFourBits ==
    /\ last.op = "GET_SIZE" => last.ret = last.size - (last.size % 16)
    /\ (NoFault /\ inited) => ReservedBitsClear

====
